---- MODULE Spec2Model ----
(***************************************************************************)
(* Model of bufiog.Reader[T] (src/reader.go): a buffered reader over a     *)
(* generic element source.                                                 *)
(*                                                                         *)
(* Elements are numbered by their position in the source's stream          *)
(* (1, 2, 3, ...), so that a lost, duplicated or reordered element is      *)
(* visible.  0 is the zero value of T.  Every public method is one action; *)
(* the reads it makes on the source are answered from a "script", a short  *)
(* list of responses (count, error) chosen afresh for every call; once the *)
(* list is used up the source delivers all that is asked for, and          *)
(* end-of-stream at the end of the stream.  Slice indices are 0-based as   *)
(* in the source.                                                          *)
(***************************************************************************)
EXTENDS Integers, Sequences, FiniteSets, TLC

minReadBufferSize == 16
maxConsecutiveEmptyReads == 100

\* Bounds of the model.
StreamLen == 17     \* elements the source holds before end-of-stream
MaxChunk == 1       \* largest partial chunk a source read returns (or all asked)
MaxArg == 2         \* largest small argument of Read / Peek / Discard

Nil == "nil"
EOF == "EOF"
ErrX == "ErrX"
ErrW == "ErrW"
ErrNoProgress == "ErrNoProgress"
ErrInvalidUnreadElem == "ErrInvalidUnreadElem"
ErrBufferFull == "ErrBufferFull"
ErrNegativeCount == "ErrNegativeCount"

Min(a, b) == IF a < b THEN a ELSE b

VARIABLES
    buf,        \* Reader.buf: function 0..len-1 -> element
    r, w,       \* Reader.r, Reader.w
    err,        \* Reader.err
    lastElem,   \* Reader.lastElem: [k, i], a pointer: nil, a local copy, &buf[i], &dest[i]
    pos,        \* the source: number of elements it has delivered
    dest,       \* the caller's slice p that lastElem may point into
    panicked,   \* a panic has unwound the program
    out         \* history: elements consumed so far, in order

vars == <<buf, r, w, err, lastElem, pos, dest, panicked, out>>

NilPtr == [k |-> "nil", i |-> 0]

\* b.buf[lo:hi] as a sequence
Slice(b, lo, hi) == [j \in 1..(hi - lo) |-> b[lo + j - 1]]

\* elements pos+1 .. pos+n of the stream
Chunk(p, n) == [j \in 1..n |-> p + j]

(***************************************************************************)
(* The source (ReadInterface[T]).  A response is [n, err, rep]: the next   *)
(* rep reads each deliver min(n, len(p)) elements and return err.  Once    *)
(* the script is used up the source delivers all that is asked for.  At    *)
(* the end of the stream a read that would deliver data reports            *)
(* end-of-stream instead.                                                  *)
(***************************************************************************)
All == StreamLen
Resp(n, e) == [n |-> n, err |-> e, rep |-> 1]
\* a read returns no data, a partial chunk or all that is asked for; an
\* error comes alone or with a partial chunk
Responses ==
    {Resp(n, Nil) : n \in (0..MaxChunk) \cup {All}}
        \cup {Resp(n, e) : n \in {0, MaxChunk}, e \in {EOF, ErrX}}
\* one response, then the rest of the stream
Singles == {<<s>> : s \in Responses}
\* maxConsecutiveEmptyReads - 1 or maxConsecutiveEmptyReads empty reads, then data or end-of-stream
Stalled ==
    {<<[n |-> 0, err |-> Nil, rep |-> maxConsecutiveEmptyReads - 1], Resp(1, Nil)>>,
     <<[n |-> 0, err |-> Nil, rep |-> maxConsecutiveEmptyReads - 1], Resp(0, EOF)>>,
     <<[n |-> 0, err |-> Nil, rep |-> maxConsecutiveEmptyReads], Resp(0, EOF)>>}
\* two responses, then the rest of the stream
Pairs ==
    {<<Resp(1, Nil), Resp(1, Nil)>>, <<Resp(1, Nil), Resp(0, ErrX)>>,
     <<Resp(MaxChunk, ErrX), Resp(0, ErrX)>>, <<Resp(MaxChunk, EOF), Resp(0, EOF)>>}
Scripts == Singles \cup Stalled \cup Pairs
NoScript == <<>>

\* The response to the next read.
Cur(script) == IF script = <<>> THEN Resp(All, Nil) ELSE Head(script)

IsEmpty(e) == e.n = 0 /\ e.err = Nil

\* The script after j more reads have been answered.
RECURSIVE Advance(_, _)
Advance(script, j) ==
    IF j = 0 \/ script = <<>> THEN script
    ELSE IF Head(script).rep > j
         THEN <<[Head(script) EXCEPT !.rep = @ - j]>> \o Tail(script)
         ELSE Advance(Tail(script), j - Head(script).rep)

\* How many reads from now on return (0, nil) in a row, counted up to `most`.
RECURSIVE EmptyRun(_, _)
EmptyRun(script, most) ==
    IF ~IsEmpty(Cur(script)) THEN 0
    ELSE IF Head(script).rep >= most THEN most
    ELSE Head(script).rep + EmptyRun(Tail(script), most - Head(script).rep)

SrcRead(m, lenp) ==
    LET e == Cur(m.script)
        left == StreamLen - m.pos
        n == Min(Min(e.n, lenp), left)
        atEnd == left = 0 /\ e.n > 0
    IN  [n |-> n,
         err |-> IF atEnd /\ e.err = Nil THEN EOF ELSE e.err,
         script |-> Advance(m.script, 1)]

\* The execution context of one call: the Reader's fields, the source, and
\* what the call returns.
Ctx(script) ==
    [buf |-> buf, r |-> r, w |-> w, err |-> err, lastElem |-> lastElem,
     pos |-> pos, dest |-> dest, panic |-> FALSE,
     script |-> script,
     sink |-> <<>>,        \* the responses of the sink w (WriteInterface[T])
     writes |-> 0,         \* writes made on the sink by this call
     reads |-> 0,          \* source reads made by this call
     recorded |-> 0,       \* errors stored into b.err by this call
     srcErr |-> Nil,       \* first error the source returned in this call
     srcErrAt |-> 0,       \* elements delivered in this call up to that error
     got |-> 0,            \* elements the source delivered in this call
     n |-> 0, rerr |-> Nil, surfaced |-> FALSE, data |-> <<>>]

Buffered(m) == m.w - m.r

Size(m) == Cardinality(DOMAIN m.buf)

\* One b.rd.Read(target) and the bookkeeping of it.
AfterRead(m, s) ==
    [m EXCEPT !.pos = @ + s.n, !.script = s.script, !.reads = @ + 1,
              !.got = @ + s.n,
              !.srcErr = IF @ = Nil THEN s.err ELSE @,
              !.srcErrAt = IF m.srcErr = Nil /\ s.err # Nil THEN m.got + s.n ELSE @]

\* b.err = e
SetErr(m, e) ==
    IF e = Nil THEN [m EXCEPT !.err = Nil]
    ELSE [m EXCEPT !.err = e, !.recorded = @ + 1]

\* return n, b.readErr()
RetReadErr(m, n) ==
    [m EXCEPT !.n = n, !.rerr = m.err, !.surfaced = (m.err # Nil), !.err = Nil]

\* return n, e
Ret(m, n, e) == [m EXCEPT !.n = n, !.rerr = e]

\* the loop of fill without b.err = io.ErrNoProgress after it
FillLoopSilent(m, tries) ==
    LET k == EmptyRun(m.script, tries)
        m0 == [m EXCEPT !.script = Advance(m.script, k), !.reads = @ + k]
    IN  IF k >= tries THEN m0
        ELSE LET s == SrcRead(m0, Size(m0) - m0.w)
                 m1 == AfterRead(m0, s)
                 m2 == [m1 EXCEPT !.buf = [j \in DOMAIN m.buf |->
                                            IF j >= m.w /\ j < m.w + s.n
                                            THEN m.pos + (j - m.w) + 1 ELSE m.buf[j]],
                                  !.w = @ + s.n]
             IN  IF s.err # Nil THEN SetErr(m2, s.err) ELSE m2

\* for i := maxConsecutiveEmptyReads; i > 0; i-- { n, err := b.rd.Read(b.buf[b.w:]) ... }
\* The reads that return (0, nil) change nothing but the count of reads, so
\* the loop is the run of empty reads followed by the read that ends it.
FillLoop(m, tries) ==
    LET k == EmptyRun(m.script, tries)
        m0 == [m EXCEPT !.script = Advance(m.script, k), !.reads = @ + k]
    IN  IF k >= tries THEN SetErr(m0, ErrNoProgress)
        ELSE LET s == SrcRead(m0, Size(m0) - m0.w)
                 m1 == AfterRead(m0, s)
                 m2 == [m1 EXCEPT !.buf = [j \in DOMAIN m.buf |->
                                            IF j >= m.w /\ j < m.w + s.n
                                            THEN m.pos + (j - m.w) + 1 ELSE m.buf[j]],
                                  !.w = @ + s.n]
             IN  IF s.err # Nil THEN SetErr(m2, s.err) ELSE m2

\* fill without the copy(b.buf, b.buf[b.r:b.w]): the indices move, the data does not
fillNoSlide(m) ==
    LET m1 == IF m.r > 0 THEN [m EXCEPT !.w = m.w - m.r, !.r = 0] ELSE m
    IN  IF m1.w >= Size(m1) THEN [m1 EXCEPT !.panic = TRUE]
        ELSE FillLoop(m1, maxConsecutiveEmptyReads)

\* fill with `i >= 0` in place of `i > 0`: one attempt more
fillOneMore(m) ==
    LET m1 == IF m.r > 0
              THEN [m EXCEPT !.buf = [j \in DOMAIN m.buf |->
                                       IF j < m.w - m.r THEN m.buf[j + m.r] ELSE m.buf[j]],
                             !.w = m.w - m.r, !.r = 0]
              ELSE m
    IN  IF m1.w >= Size(m1) THEN [m1 EXCEPT !.panic = TRUE]
        ELSE FillLoop(m1, maxConsecutiveEmptyReads + 1)

fill(m) ==
    LET m1 == IF m.r > 0
              THEN [m EXCEPT !.buf = [j \in DOMAIN m.buf |->
                                       IF j < m.w - m.r THEN m.buf[j + m.r] ELSE m.buf[j]],
                             !.w = m.w - m.r, !.r = 0]
              ELSE m
    IN  IF m1.w >= Size(m1) THEN [m1 EXCEPT !.panic = TRUE]
        ELSE FillLoop(m1, maxConsecutiveEmptyReads)

\* CopyOut with b.r = b.w in place of b.r += n
CopyOutDrain(m, lenp) ==
    LET n == Min(lenp, m.w - m.r)
    IN  Ret([m EXCEPT !.data = Slice(m.buf, m.r, m.r + n),
                      !.r = m.w,
                      !.lastElem = [k |-> "buf", i |-> m.r + n - 1]], n, Nil)

\* CopyOut with b.r += len(p) in place of b.r += n
CopyOutLen(m, lenp) ==
    LET n == Min(lenp, m.w - m.r)
    IN  Ret([m EXCEPT !.data = Slice(m.buf, m.r, m.r + n),
                      !.r = @ + lenp,
                      !.lastElem = [k |-> "buf", i |-> m.r + n - 1]], n, Nil)

\* n = copy(p, b.buf[b.r:b.w]); b.r += n; b.lastElem = &b.buf[b.r-1]
CopyOut(m, lenp) ==
    LET n == Min(lenp, m.w - m.r)
    IN  Ret([m EXCEPT !.data = Slice(m.buf, m.r, m.r + n),
                      !.r = @ + n,
                      !.lastElem = [k |-> "buf", i |-> m.r + n - 1]], n, Nil)

\* Read that fills the empty buffer with fill(), which retries empty reads
ReadRetry(m, lenp) ==
    IF lenp = 0 THEN
        IF Buffered(m) > 0 THEN Ret(m, 0, Nil) ELSE RetReadErr(m, 0)
    ELSE IF m.r = m.w THEN
        IF m.err # Nil THEN RetReadErr(m, 0)
        ELSE LET m1 == fill(m)
             IN  IF m1.w = m1.r THEN RetReadErr(m1, 0) ELSE CopyOut(m1, lenp)
    ELSE CopyOut(m, lenp)

Read(m, lenp) ==
    IF lenp = 0 THEN
        IF Buffered(m) > 0 THEN Ret(m, 0, Nil) ELSE RetReadErr(m, 0)
    ELSE IF m.r = m.w THEN
        IF m.err # Nil THEN RetReadErr(m, 0)
        ELSE IF lenp >= Size(m) THEN
            LET s == SrcRead(m, lenp)
                m1 == SetErr(AfterRead(m, s), s.err)
                m2 == IF s.n > 0
                      THEN [m1 EXCEPT !.dest = Chunk(m.pos, s.n),
                                      !.data = Chunk(m.pos, s.n),
                                      !.lastElem = [k |-> "dest", i |-> s.n - 1]]
                      ELSE m1
            IN  RetReadErr(m2, s.n)
        ELSE
            LET m0 == [m EXCEPT !.r = 0, !.w = 0]
                s == SrcRead(m0, Size(m0))
                m1 == SetErr(AfterRead(m0, s), s.err)
                m2 == [m1 EXCEPT !.buf = [j \in DOMAIN m.buf |->
                                           IF j < s.n THEN m.pos + j + 1 ELSE m.buf[j]]]
            IN  IF s.n = 0 THEN RetReadErr(m2, 0)
                ELSE CopyOut([m2 EXCEPT !.w = @ + s.n], lenp)
    ELSE CopyOut(m, lenp)

RECURSIVE ReadElem(_)
ReadElem(m) ==
    IF m.r = m.w THEN
        IF m.err # Nil THEN RetReadErr(m, 0)
        ELSE ReadElem(fill(m))
    ELSE LET c == m.buf[m.r]
         IN  Ret([m EXCEPT !.r = @ + 1,
                           !.lastElem = [k |-> "local", i |-> c],
                           !.data = <<c>>], 1, Nil)

\* *b.lastElem
Deref(m) ==
    CASE m.lastElem.k = "local" -> m.lastElem.i
      [] m.lastElem.k = "buf" -> m.buf[m.lastElem.i]
      [] m.lastElem.k = "dest" -> m.dest[m.lastElem.i + 1]
      [] OTHER -> 0

\* UnreadElem without b.lastElem = nil
UnreadElemKeepsLast(m) ==
    IF m.lastElem = NilPtr \/ (m.r = 0 /\ m.w > 0) THEN Ret(m, 0, ErrInvalidUnreadElem)
    ELSE LET m1 == IF m.r > 0 THEN [m EXCEPT !.r = @ - 1] ELSE [m EXCEPT !.w = 1]
         IN  Ret([m1 EXCEPT !.buf[m1.r] = Deref(m)], 0, Nil)

UnreadElem(m) ==
    IF m.lastElem = NilPtr \/ (m.r = 0 /\ m.w > 0) THEN Ret(m, 0, ErrInvalidUnreadElem)
    ELSE LET m1 == IF m.r > 0 THEN [m EXCEPT !.r = @ - 1] ELSE [m EXCEPT !.w = 1]
         IN  Ret([m1 EXCEPT !.buf[m1.r] = Deref(m), !.lastElem = NilPtr], 0, Nil)

\* for b.w-b.r < n && b.w-b.r < len(b.buf) && b.err == nil { b.fill() }
RECURSIVE PeekLoop(_, _)
PeekLoop(m, n) ==
    IF Buffered(m) < n /\ Buffered(m) < Size(m) /\ m.err = Nil /\ ~m.panic
    THEN PeekLoop(fill(m), n)
    ELSE m

\* Peek whose loop lacks b.w-b.r < len(b.buf): it fills a full buffer
RECURSIVE PeekLoopUnguarded(_, _)
PeekLoopUnguarded(m, n) ==
    IF Buffered(m) < n /\ m.err = Nil /\ ~m.panic
    THEN PeekLoopUnguarded(fill(m), n)
    ELSE m

PeekUnguarded(m, n) ==
    IF n < 0 THEN Ret(m, 0, ErrNegativeCount)
    ELSE LET m1 == PeekLoopUnguarded([m EXCEPT !.lastElem = NilPtr], n)
             avail == Buffered(m1)
         IN  IF m1.panic THEN m1
             ELSE IF n > Size(m1)
             THEN Ret([m1 EXCEPT !.data = Slice(m1.buf, m1.r, m1.w)], avail, ErrBufferFull)
             ELSE IF avail < n
             THEN LET m2 == RetReadErr([m1 EXCEPT !.data = Slice(m1.buf, m1.r, m1.r + avail)], avail)
                  IN  IF m2.rerr = Nil THEN Ret(m2, avail, ErrBufferFull) ELSE m2
             ELSE Ret([m1 EXCEPT !.data = Slice(m1.buf, m1.r, m1.r + n)], n, Nil)

\* Peek with n >= len(b.buf) in place of n > len(b.buf)
PeekFullAtCapacity(m, n) ==
    IF n < 0 THEN Ret(m, 0, ErrNegativeCount)
    ELSE LET m1 == PeekLoop([m EXCEPT !.lastElem = NilPtr], n)
             avail == Buffered(m1)
         IN  IF m1.panic THEN m1
             ELSE IF n >= Size(m1)
             THEN Ret([m1 EXCEPT !.data = Slice(m1.buf, m1.r, m1.w)], avail, ErrBufferFull)
             ELSE IF avail < n
             THEN LET m2 == RetReadErr([m1 EXCEPT !.data = Slice(m1.buf, m1.r, m1.r + avail)], avail)
                  IN  IF m2.rerr = Nil THEN Ret(m2, avail, ErrBufferFull) ELSE m2
             ELSE Ret([m1 EXCEPT !.data = Slice(m1.buf, m1.r, m1.r + n)], n, Nil)

\* Peek with `if` in place of `for`: one fill at most
PeekOneFill(m, n) ==
    IF n < 0 THEN Ret(m, 0, ErrNegativeCount)
    ELSE LET m0 == [m EXCEPT !.lastElem = NilPtr]
             m1 == IF Buffered(m0) < n /\ Buffered(m0) < Size(m0) /\ m0.err = Nil
                   THEN fill(m0) ELSE m0
             avail == Buffered(m1)
         IN  IF m1.panic THEN m1
             ELSE IF n > Size(m1)
             THEN Ret([m1 EXCEPT !.data = Slice(m1.buf, m1.r, m1.w)], avail, ErrBufferFull)
             ELSE IF avail < n
             THEN LET m2 == RetReadErr([m1 EXCEPT !.data = Slice(m1.buf, m1.r, m1.r + avail)], avail)
                  IN  IF m2.rerr = Nil THEN Ret(m2, avail, ErrBufferFull) ELSE m2
             ELSE Ret([m1 EXCEPT !.data = Slice(m1.buf, m1.r, m1.r + n)], n, Nil)

\* Peek that tests avail < n before n > len(b.buf): a pending error is
\* returned in place of ErrBufferFull
PeekErrFirst(m, n) ==
    IF n < 0 THEN Ret(m, 0, ErrNegativeCount)
    ELSE LET m1 == PeekLoop([m EXCEPT !.lastElem = NilPtr], n)
             avail == Buffered(m1)
         IN  IF m1.panic THEN m1
             ELSE IF avail < n
             THEN LET m2 == RetReadErr([m1 EXCEPT !.data = Slice(m1.buf, m1.r, m1.r + avail)], avail)
                  IN  IF m2.rerr = Nil THEN Ret(m2, avail, ErrBufferFull) ELSE m2
             ELSE Ret([m1 EXCEPT !.data = Slice(m1.buf, m1.r, m1.r + n)], n, Nil)

Peek(m, n) ==
    IF n < 0 THEN Ret(m, 0, ErrNegativeCount)
    ELSE LET m1 == PeekLoop([m EXCEPT !.lastElem = NilPtr], n)
             avail == Buffered(m1)
         IN  IF m1.panic THEN m1
             ELSE IF n > Size(m1)
             THEN Ret([m1 EXCEPT !.data = Slice(m1.buf, m1.r, m1.w)], avail, ErrBufferFull)
             ELSE IF avail < n
             THEN LET m2 == RetReadErr([m1 EXCEPT !.data = Slice(m1.buf, m1.r, m1.r + avail)], avail)
                  IN  IF m2.rerr = Nil THEN Ret(m2, avail, ErrBufferFull) ELSE m2
             ELSE Ret([m1 EXCEPT !.data = Slice(m1.buf, m1.r, m1.r + n)], n, Nil)

\* the for loop of Discard; m.data collects the elements skipped
RECURSIVE DiscardLoop(_, _, _)
DiscardLoop(m, n, remain) ==
    LET m1 == IF Buffered(m) = 0 THEN fill(m) ELSE m
        skip == Min(Buffered(m1), remain)
        m2 == [m1 EXCEPT !.data = @ \o Slice(m1.buf, m1.r, m1.r + skip), !.r = @ + skip]
    IN  IF m1.panic THEN m1
        ELSE IF remain - skip = 0 THEN Ret(m2, n, Nil)
        ELSE IF m2.err # Nil THEN RetReadErr(m2, n - (remain - skip))
        ELSE DiscardLoop(m2, n, remain - skip)

\* Discard without b.lastElem = nil
DiscardKeepsLast(m, n) ==
    IF n < 0 THEN Ret(m, 0, ErrNegativeCount)
    ELSE IF n = 0 THEN Ret(m, 0, Nil)
    ELSE DiscardLoop(m, n, n)

\* Discard that returns n where it should return n - remain
DiscardCountsAll(m, n) ==
    IF n < 0 THEN Ret(m, 0, ErrNegativeCount)
    ELSE IF n = 0 THEN Ret(m, 0, Nil)
    ELSE LET c == DiscardLoop([m EXCEPT !.lastElem = NilPtr], n, n)
         IN  [c EXCEPT !.n = n]

\* Discard with b.lastElem = nil ahead of the tests of n
DiscardClearsFirst(m, n) ==
    IF n < 0 THEN Ret([m EXCEPT !.lastElem = NilPtr], 0, ErrNegativeCount)
    ELSE IF n = 0 THEN Ret([m EXCEPT !.lastElem = NilPtr], 0, Nil)
    ELSE DiscardLoop([m EXCEPT !.lastElem = NilPtr], n, n)

Discard(m, n) ==
    IF n < 0 THEN Ret(m, 0, ErrNegativeCount)
    ELSE IF n = 0 THEN Ret(m, 0, Nil)
    ELSE DiscardLoop([m EXCEPT !.lastElem = NilPtr], n, n)

(***************************************************************************)
(* The sink (WriteInterface[T]).  A response is [n, err]: the write        *)
(* accepts min(n, len(p)) elements and returns err.  Once the script is    *)
(* used up the sink accepts all it is given.                               *)
(***************************************************************************)
Accept(n, e) == [n |-> n, err |-> e]

\* writeBuf with b.r = b.w in place of b.r += n
writeBufDrops(m) ==
    LET e == IF m.sink = <<>> THEN Accept(All, Nil) ELSE Head(m.sink)
        n == Min(e.n, m.w - m.r)
    IN  [m EXCEPT !.data = @ \o Slice(m.buf, m.r, m.r + n),
                  !.r = m.w,
                  !.n = @ + n,
                  !.rerr = e.err,
                  !.writes = @ + 1,
                  !.sink = IF m.sink = <<>> THEN <<>> ELSE Tail(m.sink)]

\* n, err := w.Write(b.buf[b.r:b.w]); b.r += n; return int64(n), err
\* (the count is added to m.n, the error left in m.rerr)
writeBuf(m) ==
    LET e == IF m.sink = <<>> THEN Accept(All, Nil) ELSE Head(m.sink)
        n == Min(e.n, m.w - m.r)
    IN  [m EXCEPT !.data = @ \o Slice(m.buf, m.r, m.r + n),
                  !.r = @ + n,
                  !.n = @ + n,
                  !.rerr = e.err,
                  !.writes = @ + 1,
                  !.sink = IF m.sink = <<>> THEN <<>> ELSE Tail(m.sink)]

\* for b.r < b.w { m, err := b.writeBuf(w); n += m; if err != nil { return n, err }; b.fill() }
RECURSIVE WriteLoop(_)
WriteLoop(m) ==
    IF m.r < m.w /\ ~m.panic
    THEN LET m1 == writeBuf(m)
         IN  IF m1.rerr # Nil THEN m1 ELSE WriteLoop(fill(m1))
    ELSE m

\* The transfer a source's own WriteTo, or a sink's ReadFrom, makes: code
\* outside the repository, which moves some of the stream and reports a
\* count and an error.
Delegate(m, moved, e) ==
    LET k == Min(moved, StreamLen - m.pos)
    IN  [m EXCEPT !.data = @ \o Chunk(m.pos, k), !.pos = @ + k, !.n = @ + k, !.rerr = e]

\* path: "WriterTo" when b.rd has a WriteTo method, "ReaderFrom" when w has
\* a ReadFrom method, "fill" otherwise.
WriteTo(m, path, moved, e) ==
    LET m1 == writeBuf([m EXCEPT !.lastElem = NilPtr])
    IN  IF m1.rerr # Nil THEN m1
        ELSE IF path = "WriterTo" THEN Delegate(m1, moved, e)
        ELSE IF path = "ReaderFrom" THEN Delegate(m1, moved, e)
        ELSE LET m2 == IF m1.w - m1.r < Size(m1) THEN fill(m1) ELSE m1
                 m3 == WriteLoop(m2)
             IN  IF m3.panic \/ m3.rerr # Nil THEN m3
                 ELSE LET m4 == IF m3.err = EOF THEN [m3 EXCEPT !.err = Nil] ELSE m3
                      IN  RetReadErr(m4, m4.n)

\* What a call leaves behind.  Memory that no later call can read before it
\* is written again is recorded as zero: the caller's slice unless b.lastElem
\* points into it, and the cells of b.buf outside [r, w) that b.lastElem
\* does not point to.
Commit(m) ==
    /\ buf' = [j \in DOMAIN m.buf |->
                IF (j >= m.r /\ j < m.w) \/ (m.lastElem.k = "buf" /\ m.lastElem.i = j)
                THEN m.buf[j] ELSE 0]
    /\ r' = m.r
    /\ w' = m.w
    /\ err' = m.err
    /\ lastElem' = m.lastElem
    /\ pos' = m.pos
    /\ dest' = IF m.lastElem.k = "dest" THEN m.dest ELSE <<>>
    /\ panicked' = m.panic

\* The scripts a call is tried with: the source's answers matter only to a
\* call that reads the source.
Choices(Op(_), family) ==
    IF Op(Ctx(NoScript)).reads = 0 THEN {NoScript} ELSE family

DestLens == {0, MaxArg, minReadBufferSize}

DoRead ==
    /\ ~panicked
    /\ \E lenp \in DestLens :
         \E s \in Choices(LAMBDA c : Read(c, lenp), Singles) :
            \E m \in {Read(Ctx(s), lenp)} :
               Commit(m) /\ out' = out \o m.data

DoReadElem ==
    /\ ~panicked
    /\ \E s \in Choices(ReadElem, Singles \cup Stalled) :
         \E m \in {ReadElem(Ctx(s))} :
            Commit(m) /\ out' = out \o m.data

DoUnreadElem ==
    /\ ~panicked
    /\ \E m \in {UnreadElem(Ctx(NoScript))} :
         /\ Commit(m)
         /\ out' = IF m.rerr = Nil /\ Len(out) > 0 THEN SubSeq(out, 1, Len(out) - 1) ELSE out

PeekArgs == {-1, 0, MaxArg, minReadBufferSize, minReadBufferSize + 1}

DoPeek ==
    /\ ~panicked
    /\ \E n \in PeekArgs :
         \E s \in Choices(LAMBDA c : Peek(c, n), Scripts) :
            \E m \in {Peek(Ctx(s), n)} :
               Commit(m) /\ out' = out

DiscardArgs == {-1, 0, MaxArg, minReadBufferSize + 1}

DoDiscard ==
    /\ ~panicked
    /\ \E n \in DiscardArgs :
         \E s \in Choices(LAMBDA c : Discard(c, n), Scripts) :
            \E m \in {Discard(Ctx(s), n)} :
               Commit(m) /\ out' = out \o m.data

CtxW(script, sink) == [Ctx(script) EXCEPT !.sink = sink]

\* The sink takes everything, fails on the first write, or fails on the second.
DoWriteTo ==
    /\ ~panicked
    /\ \/ \E s \in Scripts :
              \E m \in {WriteTo(CtxW(s, <<>>), "fill", 0, Nil)} :
                 Commit(m) /\ out' = out \o m.data
       \/ \E k \in {<<Accept(1, ErrW)>>, <<Accept(All, Nil), Accept(0, ErrW)>>},
             s \in {NoScript, <<Resp(1, Nil)>>} :
              \E m \in {WriteTo(CtxW(s, k), "fill", 0, Nil)} :
                 Commit(m) /\ out' = out \o m.data
       \/ \E path \in {"WriterTo", "ReaderFrom"}, moved \in {0, All}, e \in {Nil, ErrX} :
              \E m \in {WriteTo(CtxW(NoScript, <<>>), path, moved, e)} :
                 Commit(m) /\ out' = out \o m.data

\* WriteTo with a sink that accepts part of a write, or none of it, and
\* returns no error.
ShortSinks ==
    {<<Accept(0, Nil)>>, <<Accept(1, Nil)>>,
     <<Accept(All, Nil), Accept(0, Nil)>>, <<Accept(All, Nil), Accept(1, Nil)>>}

DoWriteToShort ==
    /\ ~panicked
    /\ \E k \in ShortSinks, s \in {NoScript, <<Resp(1, Nil)>>} :
          \E m \in {WriteTo(CtxW(s, k), "fill", 0, Nil)} :
             Commit(m) /\ out' = out \o m.data

\* The caller reuses the slice it passed to Read.  This is a step of the
\* caller, not a call on the Reader: it is no disjunct of Next, and belongs
\* to specifications of what b.lastElem = &p[n-1] lets the caller change.
CallerOverwritesDest ==
    /\ ~panicked
    /\ \E j \in DOMAIN dest : dest[j] # 0
    /\ dest' = [j \in DOMAIN dest |-> 0]
    /\ UNCHANGED <<buf, r, w, err, lastElem, pos, panicked, out>>

\* b.Reset(rd) with a new source rd: the buffer is kept, every other field
\* is zeroed, and the stream starts again.  (Reset(b), the Reader as its own
\* source, returns at once and is no step.)
DoReset ==
    /\ ~panicked
    /\ buf' = [j \in DOMAIN buf |-> 0]
    /\ r' = 0 /\ w' = 0 /\ err' = Nil /\ lastElem' = NilPtr
    /\ pos' = 0 /\ dest' = <<>> /\ panicked' = FALSE
    /\ out' = <<>>

\* NewReaderSize(rd, size)
Init ==
    /\ \E size \in 0..minReadBufferSize :
         buf = [j \in 0..((IF size < minReadBufferSize THEN minReadBufferSize ELSE size) - 1) |-> 0]
    /\ r = 0 /\ w = 0 /\ err = Nil /\ lastElem = NilPtr
    /\ pos = 0 /\ dest = <<>> /\ panicked = FALSE
    /\ out = <<>>

\* Read and ReadElem only
NextReads == DoRead \/ DoReadElem

SpecReads == Init /\ [][NextReads]_vars

\* Read, ReadElem, Peek and Discard only
NextRPD == DoRead \/ DoReadElem \/ DoPeek \/ DoDiscard

SpecRPD == Init /\ [][NextRPD]_vars

\* Read, ReadElem and Discard only
NextRD == DoRead \/ DoReadElem \/ DoDiscard

SpecRD == Init /\ [][NextRD]_vars

\* Read, ReadElem, UnreadElem and Peek only
NextPeek == DoRead \/ DoReadElem \/ DoUnreadElem \/ DoPeek

SpecPeek == Init /\ [][NextPeek]_vars

\* Read, ReadElem and UnreadElem with a caller that reuses the slice it
\* passed to Read, followed until the elements the Reader holds first differ
\* from the stream.
Intact == out \o Slice(buf, r, w) = [j \in 1..pos |-> j]

NextDest ==
    \/ Intact /\ DoRead
    \/ Intact /\ DoReadElem
    \/ Intact /\ DoUnreadElem
    \/ Intact /\ CallerOverwritesDest

SpecDest == Init /\ [][NextDest]_vars

\* every call, with sinks that write short without an error as well
NextShort ==
    \/ DoRead \/ DoReadElem \/ DoUnreadElem \/ DoPeek \/ DoDiscard \/ DoWriteTo \/ DoReset
    \/ DoWriteToShort

SpecShort == Init /\ [][NextShort]_vars

Next ==
    DoRead \/ DoReadElem \/ DoUnreadElem \/ DoPeek \/ DoDiscard \/ DoWriteTo \/ DoReset

Spec == Init /\ [][Next]_vars

(***************************************************************************)
(* Properties.  A property of a call is stated of every reachable state    *)
(* and every input the call can be given there; a property of a sequence   *)
(* of calls starts each call from what the call before it left.            *)
(***************************************************************************)
\* the buffered elements b.buf[b.r:b.w]
View == Slice(buf, r, w)

ViewOf(m) == Slice(m.buf, m.r, m.w)

\* the context of the call that follows the call that ended in m
Then(m, script) ==
    [m EXCEPT !.script = script, !.sink = <<>>, !.reads = 0, !.writes = 0,
              !.recorded = 0, !.srcErr = Nil, !.srcErrAt = 0, !.got = 0,
              !.n = 0, !.rerr = Nil, !.surfaced = FALSE, !.data = <<>>]

IsPrefix(s, t) == Len(s) <= Len(t) /\ s = SubSeq(t, 1, Len(s))

\* a source that answers every read with an error: a call that must not
\* read the source is tried against it
Hostile == <<[n |-> 0, err |-> ErrX, rep |-> maxConsecutiveEmptyReads]>>

\* The calls that return elements, with every input that matters in the
\* current state: Read with each length and source response, ReadElem.
ReadCalls ==
    UNION {{Read(Ctx(sc), lenp) : sc \in Choices(LAMBDA c : Read(c, lenp), Singles)} :
             lenp \in DestLens}
        \cup {ReadElem(Ctx(sc)) : sc \in Choices(ReadElem, Singles \cup Stalled)}

----------------------------------------------------------------------------
\* C1: under Read and ReadElem alone, the elements returned so far followed
\* by the elements still buffered are exactly the elements the source has
\* delivered, in order: nothing is lost, duplicated or reordered.
C1_StreamPreserved == out \o View = Chunk(0, pos)

\* the whole stream has been delivered in several reads and part of it is
\* still buffered behind the read position
C1_Witness == pos = StreamLen /\ Len(out) >= 2 /\ r > 0 /\ r < w /\ ~panicked

----------------------------------------------------------------------------
\* C2: after a Read or ReadElem that returned at least one element, the last
\* of them x, UnreadElem succeeds, the next ReadElem returns x without
\* reading the source and leaves the stream where the first read left it,
\* and a second UnreadElem (directly, or after a read that returned nothing)
\* fails with ErrInvalidUnreadElem and changes nothing.
UnreadRoundTrip(m1) ==
    \A u \in {UnreadElem(Then(m1, NoScript))} :
    \A e \in {ReadElem(Then(u, Hostile))}, u2 \in {UnreadElem(Then(u, NoScript))},
       z \in {Read(Then(u, Hostile), 0)} :
    \A u3 \in {UnreadElem(Then(z, NoScript))} :
    LET x == m1.data[Len(m1.data)]
    IN  /\ u.rerr = Nil
        /\ ViewOf(u) = <<x>> \o ViewOf(m1)
        /\ e.rerr = Nil /\ e.data = <<x>> /\ e.reads = 0
        /\ ViewOf(e) = ViewOf(m1) /\ e.pos = m1.pos /\ e.err = m1.err
        /\ u2.rerr = ErrInvalidUnreadElem
        /\ u2.buf = u.buf /\ u2.r = u.r /\ u2.w = u.w /\ u2.err = u.err
        /\ u2.lastElem = u.lastElem /\ u2.pos = u.pos
        /\ z.n = 0 /\ u3.rerr = ErrInvalidUnreadElem /\ ViewOf(u3) = ViewOf(u)

C2_UnreadRoundTrip ==
    ~panicked => \A m1 \in ReadCalls : m1.n >= 1 => UnreadRoundTrip(m1)

\* a read has just returned an element and UnreadElem gives it back, both
\* by moving r back and into a drained buffer
C2_Witness ==
    /\ lastElem.k = "local" /\ r = w /\ pos > 1
    /\ UnreadElem(Ctx(NoScript)).rerr = Nil
    /\ \E m1 \in ReadCalls : m1.n >= 1 /\ m1.r = 0

----------------------------------------------------------------------------
\* UnreadElem right after the call that ended in c fails and changes nothing
UnreadFails(call) ==
    \A c \in {call} : \A u \in {UnreadElem(Then(c, NoScript))} :
        c.panic \/ (/\ u.rerr = ErrInvalidUnreadElem
                    /\ u.buf = c.buf /\ u.r = c.r /\ u.w = c.w
                    /\ u.err = c.err /\ u.lastElem = c.lastElem)

\* UnreadElem fails after Peek(n >= 0), Discard(n > 0), WriteTo and a
\* successful UnreadElem
UnreadFailsAfterOthers ==
    /\ \A n \in PeekArgs : n >= 0 =>
          \A sc \in Choices(LAMBDA c : Peek(c, n), Scripts) : UnreadFails(Peek(Ctx(sc), n))
    /\ \A n \in DiscardArgs : n > 0 =>
          \A sc \in Choices(LAMBDA c : Discard(c, n), Scripts) : UnreadFails(Discard(Ctx(sc), n))
    /\ \A sc \in Singles : UnreadFails(WriteTo(CtxW(sc, <<>>), "fill", 0, Nil))
    /\ UnreadFails(WriteTo(CtxW(NoScript, <<Accept(1, ErrW)>>), "fill", 0, Nil))
    /\ \A path \in {"WriterTo", "ReaderFrom"} :
          UnreadFails(WriteTo(CtxW(NoScript, <<>>), path, All, Nil))
    /\ LET u == UnreadElem(Ctx(NoScript)) IN u.rerr = Nil => UnreadFails(u)

\* C3 (as the code has it): UnreadElem fails with ErrInvalidUnreadElem after
\* Peek(n >= 0), Discard(n > 0), WriteTo and a successful UnreadElem; a Read
\* or ReadElem that returned no element leaves the remembered element as it
\* was, so UnreadElem after it does what it would have done before it.
C3_UnreadInvalidated ==
    ~panicked =>
       /\ UnreadFailsAfterOthers
       /\ \A m \in ReadCalls : m.n = 0 =>
             \A was \in {UnreadElem(Ctx(NoScript))}, now \in {UnreadElem(Then(m, NoScript))} :
                 /\ m.lastElem = lastElem
                 /\ now.rerr = was.rerr
                 /\ ViewOf(now) = ViewOf(was)

\* an element is remembered, and a ReadElem that reads the source and
\* returns no element is followed by an UnreadElem that succeeds
C3_Witness ==
    /\ lastElem # NilPtr /\ r = w /\ ~panicked
    /\ \E sc \in Singles :
          LET m == ReadElem(Ctx(sc))
          IN  m.n = 0 /\ m.reads > 0 /\ UnreadElem(Then(m, NoScript)).rerr = Nil

\* C3 as stated: UnreadElem also fails after a Read or ReadElem that
\* returned no element.
C3_AsStated ==
    ~panicked =>
       /\ UnreadFailsAfterOthers
       /\ \A m \in ReadCalls : (m.n = 0 /\ (m.reads > 0 \/ m.surfaced)) => UnreadFails(m)

----------------------------------------------------------------------------
\* sources that deliver without error: data, short chunks and empty reads
Steady ==
    {sc \in Scripts : \A j \in DOMAIN sc : sc[j].err = Nil /\ sc[j].rep < maxConsecutiveEmptyReads}

\* Peek(n) then Discard(n), and Read into a slice of length n, from the
\* current state
PeekDiscard(sc, n) == Discard(Then(Peek(Ctx(sc), n), Hostile), n)

Available(n) == (err = Nil /\ (w - r) + (StreamLen - pos) >= n) \/ w - r >= n

\* C4 (as the code has it): with 0 <= n <= capacity and n elements
\* available, Peek(n) then Discard(n) consumes exactly the next n elements,
\* Discard reading nothing from the source; Read into a slice of length n
\* consumes a prefix of them, and the same n elements, leaving the same
\* stream position, when n elements are buffered already.  Read with n = 0
\* and nothing buffered also returns the pending error, which Peek and
\* Discard leave pending.
C4_PeekDiscardVsRead ==
    ~panicked =>
       \A n \in {0, MaxArg, minReadBufferSize} : Available(n) =>
          \A sc \in (IF w - r >= n THEN {NoScript} ELSE Steady) :
             \A p \in {Peek(Ctx(sc), n)} :
             \A d \in {Discard(Then(p, Hostile), n)}, rd \in {Read(Ctx(sc), n)} :
                 /\ p.rerr = Nil /\ Len(p.data) = n
                 /\ d.rerr = Nil /\ d.n = n /\ d.reads = 0
                 /\ d.data = p.data
                 /\ d.data = SubSeq(View \o Chunk(pos, StreamLen - pos), 1, n)
                 /\ rd.n = Len(rd.data) /\ IsPrefix(rd.data, d.data)
                 /\ w - r >= n =>
                       /\ rd.data = d.data /\ ViewOf(rd) = ViewOf(d)
                       /\ rd.pos = d.pos /\ rd.reads = 0 /\ p.reads = 0
                 /\ n > 0 => rd.rerr = Nil /\ (w - r >= n => rd.err = d.err)
                 /\ n = 0 => rd.rerr = (IF r = w THEN err ELSE Nil)

\* fewer than n elements are buffered: Peek and Discard take n, Read takes
\* what is buffered
C4_Witness ==
    /\ r < w /\ w - r < MaxArg /\ Available(MaxArg) /\ ~panicked
    /\ PeekDiscard(NoScript, MaxArg).n = MaxArg
    /\ Read(Ctx(NoScript), MaxArg).n = w - r

\* C4 as stated: Read into a slice of length n consumes the same elements
\* as Peek(n) then Discard(n).
C4_AsStated ==
    ~panicked =>
       \A n \in {0, MaxArg, minReadBufferSize} : Available(n) =>
          \A sc \in Steady :
             \A d \in {PeekDiscard(sc, n)}, rd \in {Read(Ctx(sc), n)} :
                 rd.data = d.data /\ rd.pos = d.pos

----------------------------------------------------------------------------
\* 1 if an error is pending or was returned, 0 if not
Count(b) == IF b THEN 1 ELSE 0

PeekCalls ==
    UNION {{Peek(Ctx(sc), n) : sc \in Choices(LAMBDA c : Peek(c, n), Scripts)} : n \in PeekArgs}

DiscardCalls ==
    UNION {{Discard(Ctx(sc), n) : sc \in Choices(LAMBDA c : Discard(c, n), Scripts)} :
             n \in DiscardArgs}

\* Each error the call found pending or recorded is returned by it, once,
\* or is pending after it.
ErrorKept(c) ==
    /\ Count(err # Nil) + c.recorded = Count(c.surfaced) + Count(c.err # Nil)
    /\ c.surfaced => c.rerr # Nil /\ c.err = Nil

\* C5: across Read, ReadElem, Peek and Discard every error recorded from the
\* source is returned to exactly one caller and cleared then: no call drops
\* or overwrites an error that has not been returned, and the first call
\* that needs data after the error was returned reads the source again.
C5_ErrorReturnedOnce ==
    ~panicked =>
       \A c \in ReadCalls \cup PeekCalls \cup DiscardCalls :
          /\ ErrorKept(c)
          /\ (c.surfaced /\ Buffered(c) = 0) => ReadElem(Then(c, NoScript)).reads = 1

----------------------------------------------------------------------------
\* C6: under Read, ReadElem and Discard an error is returned only when
\* every element buffered before it has been consumed, and while an error
\* is pending no call consumes more than what is buffered: no element the
\* source produces after the error is consumed before the error is returned.
C6_DataBeforeError ==
    ~panicked =>
       \A c \in ReadCalls \cup DiscardCalls :
          /\ c.surfaced => Buffered(c) = 0
          /\ err # Nil => Len(c.data) <= w - r /\ c.got = 0

----------------------------------------------------------------------------
\* C7: a Read call reads the source at most once, and not at all when
\* len(p) = 0, when elements are buffered, or when the buffer is empty and
\* an error is pending, which it then returns and clears.
C7_ReadOnce ==
    ~panicked =>
       \A lenp \in DestLens :
          \A sc \in Choices(LAMBDA m : Read(m, lenp), Singles \cup Stalled) :
          \A c \in {Read(Ctx(sc), lenp)} :
              /\ c.reads <= 1
              /\ (lenp = 0 \/ r < w \/ err # Nil) => c.reads = 0 /\ c.pos = pos
              /\ (lenp > 0 /\ r = w /\ err = Nil) => c.reads = 1
              /\ (r = w /\ err # Nil) => c.n = 0 /\ c.rerr = err /\ c.err = Nil

\* the buffer is empty with an error pending, which Read returns without
\* reading the source
C7_Witness ==
    /\ r = w /\ err # Nil /\ pos > 0 /\ ~panicked
    /\ Read(Ctx(Hostile), MaxArg).rerr = err
    /\ Read(Ctx(Hostile), MaxArg).reads = 0

----------------------------------------------------------------------------
\* C8: WriteTo with a sink that accepts every write, started with no error
\* pending: when the source delivers the rest of the stream and reports
\* end-of-stream, WriteTo writes the buffered elements and the rest of the
\* stream, in order, and returns their count and nil; when the source
\* reports another error after k elements, short of the end, WriteTo
\* returns the count up to that error, and that error.
C8_WriteToTransfers ==
    (~panicked /\ err = Nil) =>
       \A sc \in Scripts :
          \A c \in {WriteTo(CtxW(sc, <<>>), "fill", 0, Nil)} :
              /\ (c.srcErr = EOF /\ pos + c.srcErrAt = StreamLen) =>
                    /\ c.rerr = Nil /\ c.err = Nil
                    /\ c.n = (w - r) + (StreamLen - pos)
                    /\ c.data = View \o Chunk(pos, StreamLen - pos)
              /\ (c.srcErr = ErrX /\ c.srcErrAt < StreamLen - pos) =>
                    /\ c.rerr = ErrX
                    /\ c.n = (w - r) + c.srcErrAt

----------------------------------------------------------------------------
\* C9: for 0 <= n <= capacity, when n elements are buffered or delivered
\* by the source before it reports an error, Peek(n) returns the next n
\* elements and nil and consumes nothing: the buffered region only grows,
\* by what the source delivered, and the reads that follow return the
\* elements Peek returned.  No Peek call, whatever it returns, consumes.
C9_PeekConsumesNothing ==
    ~panicked =>
       /\ \A c \in PeekCalls :
             ~c.panic => ViewOf(c) = View \o Chunk(pos, c.got) /\ c.pos = pos + c.got
       /\ \A n \in {0, MaxArg, minReadBufferSize} :
             \A sc \in Choices(LAMBDA m : Peek(m, n), Scripts) :
             \A c \in {Peek(Ctx(sc), n)} :
             LET rd == Read(Then(c, Hostile), n)
                 el == ReadElem(Then(c, Hostile))
             IN  ((sc \in Steady /\ Available(n)) \/ (w - r) + c.got >= n) =>
                    /\ c.rerr = Nil /\ c.n = n
                    /\ c.data = SubSeq(View \o Chunk(pos, c.got), 1, n)
                    /\ Buffered(c) >= w - r
                    /\ rd.data = c.data /\ rd.reads = 0
                    /\ n > 0 => el.data = <<c.data[1]>> /\ el.reads = 0

\* Peek has to slide the buffered elements to the front and read the
\* source to have MaxArg of them
C9_Witness ==
    /\ r > 0 /\ r < w /\ w - r < MaxArg /\ err = Nil /\ ~panicked
    /\ Peek(Ctx(NoScript), MaxArg).rerr = Nil
    /\ Peek(Ctx(NoScript), MaxArg).reads = 1

----------------------------------------------------------------------------
\* C10: Peek(n) with n greater than the capacity returns ErrBufferFull and
\* the whole buffered region as it is after filling, whatever the source
\* answers; an error that is pending, or that the filling meets, stays
\* pending.
C10_PeekBeyondCapacity ==
    ~panicked =>
       \A sc \in Choices(LAMBDA m : Peek(m, minReadBufferSize + 1), Scripts) :
          \A c \in {Peek(Ctx(sc), minReadBufferSize + 1)} :
              /\ ~c.panic
              /\ c.rerr = ErrBufferFull
              /\ c.data = ViewOf(c) /\ c.n = Buffered(c)
              /\ ~c.surfaced
              /\ c.err = (IF err # Nil THEN err
                          ELSE IF c.recorded > 0 THEN c.err ELSE Nil)
              /\ (err # Nil \/ c.srcErr # Nil) => c.err # Nil

\* elements are buffered and an error is pending, and Peek beyond the
\* capacity returns ErrBufferFull
C10_Witness ==
    /\ err # Nil /\ r < w /\ ~panicked
    /\ Peek(Ctx(Hostile), minReadBufferSize + 1).rerr = ErrBufferFull
    /\ Peek(Ctx(Hostile), minReadBufferSize + 1).reads = 0

----------------------------------------------------------------------------
\* C11: Discard(n) with n > 0 returns (n, nil) having skipped the next n
\* elements, or a count d < n and an error having skipped the next d; it
\* skips the elements in order, and with n <= Buffered() it succeeds
\* without a source read.
C11_DiscardCounts ==
    ~panicked =>
       \A n \in DiscardArgs : n > 0 =>
          /\ \A sc \in Choices(LAMBDA m : Discard(m, n), Scripts) :
                \A c \in {Discard(Ctx(sc), n)} :
                    /\ ~c.panic
                    /\ c.rerr = Nil => c.n = n
                    /\ c.rerr # Nil => c.n < n
                    /\ c.n >= 0 /\ Len(c.data) = c.n
                    /\ c.data \o ViewOf(c) = View \o Chunk(pos, c.got)
          /\ n <= w - r =>
                \A c \in {Discard(Ctx(Hostile), n)} :
                    c.rerr = Nil /\ c.n = n /\ c.reads = 0

\* one element is buffered and Discard(MaxArg) meets an error after it:
\* it returns 1 and the error
C11_Witness ==
    /\ w - r = 1 /\ err = Nil /\ ~panicked
    /\ Discard(Ctx(<<Resp(0, ErrX)>>), MaxArg).n = 1
    /\ Discard(Ctx(<<Resp(0, ErrX)>>), MaxArg).rerr = ErrX

----------------------------------------------------------------------------
\* the call that ended in c read nothing from the source and left every
\* field of the Reader as it was
Untouched(c) ==
    /\ c.reads = 0 /\ c.pos = pos /\ ~c.panic
    /\ c.buf = buf /\ c.r = r /\ c.w = w
    /\ c.err = err /\ c.lastElem = lastElem /\ c.dest = dest

\* C12: Discard(0) returns (0, nil), and Peek(n) and Discard(n) with n < 0
\* return ErrNegativeCount, without a source read and leaving r, w, the
\* buffer, the pending error and the remembered element as they were.
C12_DegenerateArgs ==
    ~panicked =>
       /\ LET c == Discard(Ctx(Hostile), 0)
          IN  c.n = 0 /\ c.rerr = Nil /\ c.data = <<>> /\ Untouched(c)
       /\ \A n \in {-1, -MaxArg} :
             LET d == Discard(Ctx(Hostile), n)
                 p == Peek(Ctx(Hostile), n)
             IN  /\ d.n = 0 /\ d.rerr = ErrNegativeCount /\ d.data = <<>> /\ Untouched(d)
                 /\ p.n = 0 /\ p.rerr = ErrNegativeCount /\ p.data = <<>> /\ Untouched(p)

\* mid-stream, with elements buffered, an error pending and an element
\* remembered: Discard(0) leaves all three
C12_Witness ==
    /\ r > 0 /\ r < w /\ err # Nil /\ lastElem # NilPtr /\ ~panicked
    /\ Untouched(Discard(Ctx(Hostile), 0))

----------------------------------------------------------------------------
\* C13: the remembered element is a copy of the last element returned:
\* whatever the caller does to the slice it passed to Read, UnreadElem,
\* when it succeeds, pushes back the last element returned, and the next
\* ReadElem returns it.
C13_LastElemIsCopy ==
    (~panicked /\ lastElem # NilPtr /\ Len(out) > 0) =>
       LET u == UnreadElem(Ctx(NoScript))
           e == ReadElem(Then(u, Hostile))
       IN  u.rerr = Nil => e.rerr = Nil /\ e.data = <<out[Len(out)]>>

----------------------------------------------------------------------------
\* C14: in every reachable state, whatever counts the source and the sink
\* return within 0..len(p), 0 <= r <= w <= capacity, Buffered() is w - r
\* and Size() is the capacity the Reader was constructed with.
C14_Cursors ==
    /\ 0 <= r /\ r <= w /\ w <= minReadBufferSize
    /\ Buffered(Ctx(NoScript)) = w - r
    /\ Size(Ctx(NoScript)) = minReadBufferSize
    /\ DOMAIN buf = 0..(minReadBufferSize - 1)

\* the write position is at the capacity and the read position is inside
\* the buffer, and a sink that writes short makes WriteTo write again
C14_Witness ==
    /\ 0 < r /\ r < w /\ w = minReadBufferSize /\ ~panicked
    /\ \E k \in ShortSinks : WriteTo(CtxW(NoScript, k), "fill", 0, Nil).writes > 1

----------------------------------------------------------------------------
\* a source that answers k reads with (0, nil) and the next with `then`
EmptyThen(k, then) == <<[n |-> 0, err |-> Nil, rep |-> k], then>>

\* C15: fill makes at most maxConsecutiveEmptyReads reads.  After that many
\* (0, nil) answers it records ErrNoProgress and leaves the source's next
\* answer unread; after one fewer, the answer to the last attempt, an
\* error or data, is what it records.
C15_NoProgressBound ==
    (~panicked /\ w - r < minReadBufferSize) =>
       LET most == maxConsecutiveEmptyReads
           a == fill(Ctx(EmptyThen(most, Resp(0, EOF))))
           b == fill(Ctx(EmptyThen(most - 1, Resp(0, EOF))))
           c == fill(Ctx(EmptyThen(most - 1, Resp(0, ErrX))))
           d == fill(Ctx(EmptyThen(most - 1, Resp(1, Nil))))
           e == ReadElem(Ctx(EmptyThen(most, Resp(0, EOF))))
           f == ReadElem(Ctx(EmptyThen(most - 1, Resp(0, EOF))))
       IN  /\ a.reads = most /\ a.err = ErrNoProgress /\ a.srcErr = Nil
           /\ a.script = <<Resp(0, EOF)>> /\ ViewOf(a) = View
           /\ b.reads = most /\ b.err = EOF /\ b.script = <<>> /\ ViewOf(b) = View
           /\ c.reads = most /\ c.err = ErrX /\ ViewOf(c) = View
           /\ d.reads = most
           /\ pos < StreamLen => d.err = err /\ ViewOf(d) = View \o <<pos + 1>>
           /\ (r = w /\ err = Nil) =>
                 /\ e.rerr = ErrNoProgress /\ e.reads = most /\ e.n = 0
                 /\ f.rerr = EOF /\ f.reads = most /\ f.n = 0

\* fill has elements to slide to the front of the buffer before it reads,
\* and the source answers maxConsecutiveEmptyReads times with (0, nil)
C15_Witness ==
    /\ r > 0 /\ r < w /\ err = Nil /\ pos < StreamLen /\ ~panicked
    /\ fill(Ctx(EmptyThen(maxConsecutiveEmptyReads, Resp(0, EOF)))).err = ErrNoProgress
    /\ fill(Ctx(EmptyThen(maxConsecutiveEmptyReads, Resp(0, EOF)))).r = 0

----------------------------------------------------------------------------
\* a source that answers (0, nil) to more reads than any call may make
Silent == <<[n |-> 0, err |-> Nil, rep |-> 3 * maxConsecutiveEmptyReads]>>

\* the call that ended in c gave up: ErrNoProgress, nothing delivered, at
\* most maxConsecutiveEmptyReads reads
GaveUp(call) ==
    \A c \in {call} :
       /\ ~c.panic /\ c.rerr = ErrNoProgress /\ c.n = 0 /\ c.data = <<>>
       /\ c.reads <= maxConsecutiveEmptyReads /\ c.got = 0

\* every fill of the call that ended in c delivered an element or ended
\* the call: at most maxConsecutiveEmptyReads reads for each element and
\* as many for the last fill
ReadsBounded(call) ==
    \A c \in {call} : ~c.panic /\ c.reads <= maxConsecutiveEmptyReads * (c.got + 1)

\* the states a Reader can be in over a source that never delivers
Starved == ~panicked /\ r = w /\ err \in {Nil, ErrNoProgress}

\* C16 (as the code has it): over a source that answers (0, nil) for ever,
\* ReadElem, Peek(n) with 0 < n <= capacity, Discard(n > 0) and WriteTo by
\* fill return ErrNoProgress after at most maxConsecutiveEmptyReads reads
\* with no element delivered; Peek(n) with n > capacity makes no more reads
\* and returns ErrBufferFull.  Over every source, ReadElem, Peek and Discard
\* make at most maxConsecutiveEmptyReads reads for each element they get
\* and for their last fill, so they return.
C16_Terminates ==
    /\ Starved =>
          /\ GaveUp(ReadElem(Ctx(Silent)))
          /\ \A n \in {1, MaxArg, minReadBufferSize} : GaveUp(Peek(Ctx(Silent), n))
          /\ \A n \in DiscardArgs : n > 0 => GaveUp(Discard(Ctx(Silent), n))
          /\ GaveUp(WriteTo(CtxW(Silent, <<>>), "fill", 0, Nil))
          /\ LET c == Peek(Ctx(Silent), minReadBufferSize + 1)
             IN  /\ c.rerr = ErrBufferFull /\ c.data = <<>> /\ c.err = ErrNoProgress
                 /\ c.reads <= maxConsecutiveEmptyReads
    /\ ~panicked =>
          /\ \A sc \in Choices(ReadElem, Scripts \cup {Silent}) :
                ReadsBounded(ReadElem(Ctx(sc)))
          /\ \A n \in PeekArgs :
                \A sc \in Choices(LAMBDA m : Peek(m, n), Scripts \cup {Silent}) :
                   ReadsBounded(Peek(Ctx(sc), n))
          /\ \A n \in DiscardArgs :
                \A sc \in Choices(LAMBDA m : Discard(m, n), Scripts \cup {Silent}) :
                   ReadsBounded(Discard(Ctx(sc), n))

\* the buffer has been drained mid-stream and the source stops delivering:
\* ReadElem gives up after maxConsecutiveEmptyReads reads
C16_Witness ==
    /\ Starved /\ r > 0 /\ err = Nil /\ pos < StreamLen
    /\ ReadElem(Ctx(Silent)).reads = maxConsecutiveEmptyReads
    /\ ReadElem(Ctx(Silent)).rerr = ErrNoProgress

\* C16 as stated: Peek(n) returns ErrNoProgress for every n > 0.
C16_AsStated ==
    Starved =>
       /\ GaveUp(ReadElem(Ctx(Silent)))
       /\ \A n \in PeekArgs : n > 0 => GaveUp(Peek(Ctx(Silent), n))
       /\ \A n \in DiscardArgs : n > 0 => GaveUp(Discard(Ctx(Silent), n))
       /\ GaveUp(WriteTo(CtxW(Silent, <<>>), "fill", 0, Nil))

----------------------------------------------------------------------------
\* sinks that fail on the first write or on the second, having accepted
\* one element of the failing write or none
FailingSinks ==
    {<<Accept(0, ErrW)>>, <<Accept(1, ErrW)>>,
     <<Accept(All, Nil), Accept(0, ErrW)>>, <<Accept(All, Nil), Accept(1, ErrW)>>}

\* C17: when the sink returns an error, WriteTo returns at once the count
\* of elements the sink accepted and that error; the elements not accepted
\* stay buffered, in order, and the reads that follow return them.
C17_SinkError ==
    ~panicked =>
       \A k \in FailingSinks : \A sc \in {NoScript, <<Resp(1, Nil)>>, <<Resp(MaxChunk, EOF)>>} :
          \A c \in {WriteTo(CtxW(sc, k), "fill", 0, Nil)} :
          LET left == ViewOf(c)
              rd == Read(Then(c, Hostile), MaxArg)
              el == ReadElem(Then(c, Hostile))
          IN  c.rerr = ErrW =>
                 /\ ~c.panic
                 /\ c.n = Len(c.data)
                 /\ c.writes = Len(k) /\ c.sink = <<>>
                 /\ Len(k) = 1 => c.reads = 0
                 /\ c.data \o left = View \o Chunk(pos, c.got)
                 /\ left # <<>> =>
                       /\ rd.data = SubSeq(left, 1, Min(MaxArg, Len(left))) /\ rd.reads = 0
                       /\ el.data = <<left[1]>> /\ el.reads = 0

\* several elements are buffered and the sink fails after accepting one:
\* WriteTo returns 1 and the others stay buffered
C17_Witness ==
    /\ w - r > MaxArg /\ ~panicked
    /\ LET c == WriteTo(CtxW(NoScript, <<Accept(1, ErrW)>>), "fill", 0, Nil)
       IN  c.rerr = ErrW /\ c.n = 1 /\ Buffered(c) = (w - r) - 1

----------------------------------------------------------------------------
\* C18: with a sink that accepts the whole slice whenever it returns no
\* error, no call runs fill on a full buffer: the Reader has not panicked,
\* and Peek and Discard beyond the capacity and WriteTo, with a sink that
\* accepts or fails, do not panic from here.
C18_NeverFillsFull ==
    /\ ~panicked
    /\ ~Peek(Ctx(NoScript), minReadBufferSize + 1).panic
    /\ ~Discard(Ctx(NoScript), minReadBufferSize + 1).panic
    /\ \A sc \in {NoScript, <<Resp(1, Nil)>>, <<Resp(MaxChunk, ErrX)>>} :
          \A k \in FailingSinks \cup {<<>>} : ~WriteTo(CtxW(sc, k), "fill", 0, Nil).panic

\* the buffer is full, and Peek beyond the capacity does not fill it
C18_Witness ==
    /\ w - r = minReadBufferSize /\ err = Nil /\ pos < StreamLen /\ ~panicked
    /\ ~Peek(Ctx(NoScript), minReadBufferSize + 1).panic
    /\ Peek(Ctx(NoScript), minReadBufferSize + 1).reads = 0

----------------------------------------------------------------------------
\* C19: whenever an element is remembered, r > 0 or w = 0, so UnreadElem
\* fails exactly when no element is remembered: the test r == 0 && w > 0
\* is never what makes it fail.
C19_UnreadGuard ==
    ~panicked =>
       /\ lastElem # NilPtr => (r > 0 \/ w = 0)
       /\ UnreadElem(Ctx(NoScript)).rerr = ErrInvalidUnreadElem <=> lastElem = NilPtr

\* an element is remembered with the buffer empty at its start: UnreadElem
\* takes the b.w = 1 branch
C19_Witness ==
    /\ lastElem # NilPtr /\ r = 0 /\ w = 0 /\ pos > 0 /\ ~panicked
    /\ UnreadElem(Ctx(NoScript)).rerr = Nil
    /\ UnreadElem(Ctx(NoScript)).w = 1

----------------------------------------------------------------------------
\* C20: Peek(n) with 0 <= n <= capacity never returns ErrBufferFull: it
\* returns n elements and nil, or fewer with the pending error, the one it
\* found pending or the one its filling met, which it clears.
C20_PeekShortError ==
    ~panicked =>
       \A n \in {0, 1, MaxArg, minReadBufferSize} :
          \A sc \in Choices(LAMBDA m : Peek(m, n), Scripts) :
          \A c \in {Peek(Ctx(sc), n)} :
              /\ c.rerr # ErrBufferFull
              /\ Len(c.data) <= n /\ c.n = Len(c.data)
              /\ Len(c.data) = n => c.rerr = Nil
              /\ Len(c.data) < n =>
                    /\ c.surfaced /\ c.err = Nil
                    /\ c.rerr = (IF err # Nil THEN err
                                 ELSE IF c.srcErr # Nil THEN c.srcErr ELSE ErrNoProgress)

\* one element is buffered with an error pending: Peek(MaxArg) returns the
\* element and the error, and clears it
C20_Witness ==
    /\ w - r = 1 /\ err # Nil /\ ~panicked
    /\ Peek(Ctx(Hostile), MaxArg).rerr = err
    /\ Peek(Ctx(Hostile), MaxArg).n = 1
    /\ Peek(Ctx(Hostile), MaxArg).err = Nil

====
